---------------------------- MODULE Spec2Model ----------------------------
(***************************************************************************)
(* rift_open.c: the balanced index (rb_insert / find / mark_measurement)   *)
(* and the 2->1 duplex transform (rift_encode / rift_open) that feeds it.  *)
(*                                                                         *)
(* Conventions                                                             *)
(*  - a pointer to an RBNode is the index of the node in `heap` (the order *)
(*    of allocation); NULL is 0.                                           *)
(*  - a float confidence is held in tenths: 0.0f = 0, 0.5f = 5, 1.0f = 10. *)
(*  - uint8_t polarity is the character code: '+' = 43, '-' = 45, and 0    *)
(*    for "no polarity argument" of mark_measurement.                      *)
(*  - a node released by free() is removed from `heap`; what the code      *)
(*    reads from it afterwards is a nondeterministic choice (see           *)
(*    rb_insert).                                                          *)
(***************************************************************************)
EXTENDS Integers, Sequences, FiniteSets

NULL == 0

\* ---------- program constants (src/ropen.c:48-51) ----------
PRUNE_THRESHOLD == 5
PRUNE_STREAK == 1
POLARITY_POS == 43
POLARITY_NEG == 45
NSTREAK == 256
INT_MAX == 2147483647
INT_MIN == (-INT_MAX) - 1

\* ---------- bounds of the model ----------
\* keys 1..MaxTreeKey are offered to rb_insert in the tree specification
MaxTreeKey == 4
\* a streak counter is followed for MaxStreak steps from 0 and around INT_MAX
MaxStreak == 2
\* half of the chunk size of rift_open (the code reads 4096 = 2 * 2048 bytes)
HalfBuf == 2
\* longest byte source: MaxChunks buffers and one byte
MaxChunks == 2
\* longest input handed to a direct rift_encode call
MaxIn == 5
\* keys 1..MaxDeepKey are offered to rb_insert in the specification of deep
\* trees: a rotation below the root needs six nodes
MaxDeepKey == 6

VARIABLES
    heap,       \* the allocated RBNodes, by address
    rb_root,    \* static RBNode *rb_root
    streak,     \* static int streak[256] of mark_measurement
    fault,      \* the process has dereferenced a wild pointer and is dead
    pc,         \* position of the running rift_open: "idle", "loop"
    file,       \* content of the opened byte source
    fpos,       \* read position of the FILE
    eof,        \* the FILE's end-of-file indicator, as feof reports it
    readable,   \* reads of the opened source succeed (FALSE: fread fails)
    out,        \* bytes written to the caller's output buffer, from out[0]
    total,      \* local `total` of rift_open
    out_cap,    \* argument out_cap of rift_open
    polA,       \* argument polarity_A of rift_open
    call        \* the last operation: its arguments and what it returned

vars == <<heap, rb_root, streak, fault, pc, file, fpos, eof, readable, out,
          total, out_cap, polA, call>>

Max(a, b) == IF a > b THEN a ELSE b

\* ---------- RB-AVL helpers ----------
\* calloc(1, sizeof(*n)) followed by the assignments of rb_insert
NewNode(key, val, conf, pol, color) ==
    [key |-> key, val |-> val, polarity |-> pol, confidence |-> conf,
     color |-> color, height |-> 0, left |-> NULL, right |-> NULL,
     parent |-> NULL]

height(h, n) == IF n = NULL THEN 0 ELSE h[n].height

bf(h, n) == IF n = NULL THEN 0 ELSE height(h, h[n].left) - height(h, h[n].right)

update_height(h, n) ==
    IF n = NULL THEN h
    ELSE [h EXCEPT ![n].height =
              (1 + Max(height(h, h[n].left), height(h, h[n].right))) % 256]

\* assignments n->left = v, n->right = v, n->parent = v on heap h
SetLeft(h, n, v) == [h EXCEPT ![n].left = v]
SetRight(h, n, v) == [h EXCEPT ![n].right = v]
SetParent(h, n, v) == [h EXCEPT ![n].parent = v]

\* if (c) c->parent = x;
SetParentIf(h, c, x) == IF c # NULL THEN SetParent(h, c, x) ELSE h

\* rotate_left leaving the child link of x->parent as it is
RelinkLeftFirst_skipped(h, xp, x, y) == h

\* rotate_left: if (x->parent) { if (x == x->parent->left) x->parent->left = y;
\*                               else x->parent->right = y; }
RelinkLeftFirst(h, xp, x, y) ==
    IF xp = NULL THEN h
    ELSE IF x = h[xp].left THEN SetLeft(h, xp, y) ELSE SetRight(h, xp, y)

\* rotate_right: the same test made on x->parent->right
RelinkRightFirst(h, xp, x, y) ==
    IF xp = NULL THEN h
    ELSE IF x = h[xp].right THEN SetRight(h, xp, y) ELSE SetLeft(h, xp, y)

\* the assignments of rotate_left in the order of the code, y = x->right being
\* there; yl is y->left and xp is x->parent, which no earlier line has changed
rotate_left_links(h, x, y, yl, xp) ==
    update_height(update_height(
        SetParent(SetLeft(
            RelinkLeftFirst(
                SetParent(SetParentIf(SetRight(h, x, yl), yl, x), y, xp),
                xp, x, y),
            y, x), x, y),
        x), y)

rotate_right_links(h, x, y, yr, xp) ==
    update_height(update_height(
        SetParent(SetRight(
            RelinkRightFirst(
                SetParent(SetParentIf(SetLeft(h, x, yr), yr, x), y, xp),
                xp, x, y),
            y, x), x, y),
        x), y)

\* rotate_left_at without the update of rb_root
rotate_left_at_keeps_root(S, x, y) ==
    [S |-> [heap |-> rotate_left_links(S.heap, x, y, S.heap[y].left,
                                       S.heap[x].parent),
            root |-> S.root],
     ret |-> y]

\* a tree state is [heap, root]; a rotation returns it with the pointer returned
rotate_left_at(S, x, y) ==
    [S |-> [heap |-> rotate_left_links(S.heap, x, y, S.heap[y].left,
                                       S.heap[x].parent),
            root |-> IF S.heap[x].parent # NULL THEN S.root ELSE y],
     ret |-> y]

rotate_left(S, x) ==
    IF S.heap[x].right = NULL THEN [S |-> S, ret |-> x]
    ELSE rotate_left_at(S, x, S.heap[x].right)

rotate_right_at(S, x, y) ==
    [S |-> [heap |-> rotate_right_links(S.heap, x, y, S.heap[y].right,
                                        S.heap[x].parent),
            root |-> IF S.heap[x].parent # NULL THEN S.root ELSE y],
     ret |-> y]

rotate_right(S, x) ==
    IF S.heap[x].left = NULL THEN [S |-> S, ret |-> x]
    ELSE rotate_right_at(S, x, S.heap[x].left)

\* n->left = rotate_left(n->left);  n->right = rotate_right(n->right);
AssignLeft(r, n) == [r.S EXCEPT !.heap = SetLeft(r.S.heap, n, r.ret)]
AssignRight(r, n) == [r.S EXCEPT !.heap = SetRight(r.S.heap, n, r.ret)]

\* if (bf(n->left) < 0) n->left = rotate_left(n->left);
left_heavy_first(S, n) ==
    IF bf(S.heap, S.heap[n].left) < 0
    THEN AssignLeft(rotate_left(S, S.heap[n].left), n)
    ELSE S

\* if (bf(n->right) > 0) n->right = rotate_right(n->right);
right_heavy_first(S, n) ==
    IF bf(S.heap, S.heap[n].right) > 0
    THEN AssignRight(rotate_right(S, S.heap[n].right), n)
    ELSE S

RECURSIVE rebalance_up(_, _)

\* n = rotate_...(n); and the loop goes on from n
rebalance_from(r) == rebalance_up(r.S, r.ret)

\* the body of the while loop after update_height(n)
rebalance_step(S, n) ==
    IF bf(S.heap, n) > 1
    THEN rebalance_from(rotate_right(left_heavy_first(S, n), n))
    ELSE IF bf(S.heap, n) < -1
    THEN rebalance_from(rotate_left(right_heavy_first(S, n), n))
    ELSE rebalance_up(S, S.heap[n].parent)

rebalance_up(S, n) ==
    IF n = NULL THEN S
    ELSE rebalance_step([S EXCEPT !.heap = update_height(S.heap, n)], n)

\* ---------- Insert ----------
\* root->left = bst_insert(root->left, node); root->left->parent = root;
\* update_height(root); return root;    r is what the inner call returned
insert_left(r, root) ==
    [heap |-> update_height(SetParent(SetLeft(r.heap, root, r.ret), r.ret, root),
                            root),
     ret |-> root, freed |-> r.freed]

insert_right(r, root) ==
    [heap |-> update_height(SetParent(SetRight(r.heap, root, r.ret), r.ret, root),
                            root),
     ret |-> root, freed |-> r.freed]

\* update_in_place with the copy of polarity left out
update_in_place_no_polarity(h, root, node) ==
    [heap |-> SubSeq([h EXCEPT ![root].val = h[node].val,
                               ![root].confidence = h[node].confidence],
                     1, Len(h) - 1),
     ret |-> root, freed |-> TRUE]

\* update in place, free(node): node is the block allocated last
update_in_place(h, root, node) ==
    [heap |-> SubSeq([h EXCEPT ![root].val = h[node].val,
                               ![root].confidence = h[node].confidence,
                               ![root].polarity = h[node].polarity],
                     1, Len(h) - 1),
     ret |-> root, freed |-> TRUE]

\* bst_insert with the two comparisons exchanged
RECURSIVE bst_insert_swapped(_, _, _)
bst_insert_swapped(h, root, node) ==
    IF root = NULL THEN [heap |-> h, ret |-> node, freed |-> FALSE]
    ELSE IF h[node].key > h[root].key
    THEN insert_left(bst_insert_swapped(h, h[root].left, node), root)
    ELSE IF h[node].key < h[root].key
    THEN insert_right(bst_insert_swapped(h, h[root].right, node), root)
    ELSE update_in_place(h, root, node)

\* bst_insert(root, node) on heap h: the heap after it, the pointer it returns,
\* and whether it released `node` (the key was there already)
RECURSIVE bst_insert(_, _, _)
bst_insert(h, root, node) ==
    IF root = NULL THEN [heap |-> h, ret |-> node, freed |-> FALSE]
    ELSE IF h[node].key < h[root].key
    THEN insert_left(bst_insert(h, h[root].left, node), root)
    ELSE IF h[node].key > h[root].key
    THEN insert_right(bst_insert(h, h[root].right, node), root)
    ELSE update_in_place(h, root, node)

\* rb_root = bst_insert(rb_root, n); rebalance_up(n->parent ? n->parent : n);
\* r is what bst_insert returned.  When bst_insert has released n, the code
\* still reads n->parent and runs rebalance_up on it: `wild` chooses what the
\* released block holds by then.  FALSE: still the zeroes of calloc, so
\* n->parent, n->left and n->right read NULL and rebalance_up(n) touches the
\* released block alone.  TRUE: the allocator has overwritten it, the pointer
\* read is followed and the process dies.  `stale` records that n->parent
\* (and, with it NULL, n->height, n->left and n->right in rebalance_up(n))
\* was accessed after free(n).
insert_rebalance(r, n, wild) ==
    IF r.freed
    THEN [S |-> [heap |-> r.heap, root |-> r.ret], freed |-> TRUE, fault |-> wild,
          stale |-> TRUE]
    ELSE [S |-> rebalance_up([heap |-> r.heap, root |-> r.ret],
                             IF r.heap[n].parent # NULL
                             THEN r.heap[n].parent ELSE n),
          freed |-> FALSE, fault |-> FALSE, stale |-> FALSE]

rb_insert(S, key, val, conf, pol, wild) ==
    insert_rebalance(
        bst_insert(Append(S.heap,
                          NewNode(key, val, conf, pol,
                                  IF S.root # NULL THEN 1 ELSE 0)),
                   S.root, Len(S.heap) + 1),
        Len(S.heap) + 1, wild)

RECURSIVE find_from(_, _, _)
find_from(h, cur, key) ==
    IF cur = NULL THEN NULL
    ELSE IF key = h[cur].key THEN cur
    ELSE find_from(h, IF key < h[cur].key THEN h[cur].left ELSE h[cur].right, key)

find(S, key) == find_from(S.heap, S.root, key)

Tree == [heap |-> heap, root |-> rb_root]

\* ---------- Mark ----------
\* streak[key & 0xFF]++ on a 32-bit int
IncInt(x) == IF x = INT_MAX THEN INT_MIN ELSE x + 1

\* the pruning decision without the else branch
prune_decision_no_reset(h, stk, n, b, conf) ==
    IF conf < PRUNE_THRESHOLD \/ h[n].polarity = POLARITY_NEG
    THEN IF IncInt(stk[b]) >= PRUNE_STREAK
         THEN [heap |-> [h EXCEPT ![n].val = 0, ![n].confidence = 0],
               streak |-> [stk EXCEPT ![b] = IncInt(stk[b])]]
         ELSE [heap |-> h, streak |-> [stk EXCEPT ![b] = IncInt(stk[b])]]
    ELSE [heap |-> h, streak |-> stk]

\* the pruning decision with the pruned node's key cleared as well
prune_decision_clears_key(h, stk, n, b, conf) ==
    IF conf < PRUNE_THRESHOLD \/ h[n].polarity = POLARITY_NEG
    THEN IF IncInt(stk[b]) >= PRUNE_STREAK
         THEN [heap |-> [h EXCEPT ![n].val = 0, ![n].confidence = 0,
                                  ![n].key = 0],
               streak |-> [stk EXCEPT ![b] = IncInt(stk[b])]]
         ELSE [heap |-> h, streak |-> [stk EXCEPT ![b] = IncInt(stk[b])]]
    ELSE [heap |-> h, streak |-> [stk EXCEPT ![b] = 0]]

\* the pruning decision on node n whose confidence and polarity are written.
\* The source declares streak inside the if block and names it again in the
\* else branch (lines 142 and 148); it is taken as one array of the function.
prune_decision(h, stk, n, b, conf) ==
    IF conf < PRUNE_THRESHOLD \/ h[n].polarity = POLARITY_NEG
    THEN IF IncInt(stk[b]) >= PRUNE_STREAK
         THEN [heap |-> [h EXCEPT ![n].val = 0, ![n].confidence = 0],
               streak |-> [stk EXCEPT ![b] = IncInt(stk[b])]]
         ELSE [heap |-> h, streak |-> [stk EXCEPT ![b] = IncInt(stk[b])]]
    ELSE [heap |-> h, streak |-> [stk EXCEPT ![b] = 0]]

\* write_measurement without the test of pol
write_measurement_untested(h, n, conf, pol) ==
    [h EXCEPT ![n].confidence = conf, ![n].polarity = pol]

\* n->confidence = conf; if (pol) n->polarity = pol;
write_measurement(h, n, conf, pol) ==
    IF pol # 0
    THEN [h EXCEPT ![n].confidence = conf, ![n].polarity = pol]
    ELSE [h EXCEPT ![n].confidence = conf]

\* mark_found with the counter bumped before the test of n
mark_found_counts_absent(h, stk, n, key, conf, pol) ==
    IF n = NULL
    THEN [heap |-> h,
          streak |-> IF conf < PRUNE_THRESHOLD
                     THEN [stk EXCEPT ![key % NSTREAK] = IncInt(@)] ELSE stk]
    ELSE prune_decision(write_measurement(h, n, conf, pol), stk, n,
                        key % NSTREAK, conf)

\* mark_measurement once find(key) has returned n; pol = 0 is "no argument"
mark_found(h, stk, n, key, conf, pol) ==
    IF n = NULL THEN [heap |-> h, streak |-> stk]
    ELSE prune_decision(write_measurement(h, n, conf, pol), stk, n,
                        key % NSTREAK, conf)

mark_measurement(S, stk, key, conf, pol) ==
    mark_found(S.heap, stk, find(S, key), key, conf, pol)

\* ---------- 2->1 Sparse Duplex Encoding ----------
RECURSIVE XorBits(_, _, _)
XorBits(a, b, w) ==
    IF w = 0 THEN 0
    ELSE (((a % 2) + (b % 2)) % 2) + 2 * XorBits(a \div 2, b \div 2, w - 1)

\* ^ on uint8_t operands
Xor8(a, b) == XorBits(a, b, 8)

\* conjugate as a complement of the whole byte
conjugate_full(x) == Xor8(255, x)

conjugate(x) == Xor8(15, x)

\* logical with the conjugate applied under polarity A alone
logical_plain_B(in, i, polarity_A) ==
    Xor8(in[i + 1],
         IF polarity_A
         THEN conjugate(IF i + 1 < Len(in) THEN in[i + 2] ELSE 0)
         ELSE (IF i + 1 < Len(in) THEN in[i + 2] ELSE 0))

\* logical of the pair at index i (0-based), b padded with epsilon
logical(in, i, polarity_A) ==
    Xor8(IF polarity_A THEN in[i + 1] ELSE conjugate(in[i + 1]),
         IF polarity_A
         THEN conjugate(IF i + 1 < Len(in) THEN in[i + 2] ELSE 0)
         ELSE (IF i + 1 < Len(in) THEN in[i + 2] ELSE 0))

RECURSIVE encode_loop(_, _, _, _, _, _, _)

\* after rb_insert has returned r: next pair, unless the process died in it
encode_next(r, in, i, o1, polarity_A, crashAt, dups) ==
    IF r.fault
    THEN [S |-> r.S, out |-> o1, fault |-> TRUE,
          dups |-> dups + (IF r.freed THEN 1 ELSE 0)]
    ELSE encode_loop(r.S, in, i + 2, o1, polarity_A, crashAt,
                     dups + (IF r.freed THEN 1 ELSE 0))

\* encode_pair with the 0-based position as the key
encode_pair_zero_based(S, in, i, o1, polarity_A, crashAt, dups) ==
    encode_next(rb_insert(S, Len(o1) - 1, o1[Len(o1)], 10,
                          IF polarity_A THEN POLARITY_POS ELSE POLARITY_NEG,
                          crashAt = Len(o1)),
                in, i, o1, polarity_A, crashAt, dups)

\* out[out_len++] = logical; rb_insert(out_len, logical, 1.0f, '+' or '-')
encode_pair(S, in, i, o1, polarity_A, crashAt, dups) ==
    encode_next(rb_insert(S, Len(o1), o1[Len(o1)], 10,
                          IF polarity_A THEN POLARITY_POS ELSE POLARITY_NEG,
                          crashAt = Len(o1)),
                in, i, o1, polarity_A, crashAt, dups)

\* the for loop of rift_encode from index i (0-based) with o written so far.
\* crashAt is the rb_insert call (by its key) that finds its released node
\* overwritten; dups counts the inserts that hit a key already there.
encode_loop(S, in, i, o, polarity_A, crashAt, dups) ==
    IF ~(i < Len(in)) THEN [S |-> S, out |-> o, fault |-> FALSE, dups |-> dups]
    ELSE encode_pair(S, in, i, Append(o, logical(in, i, polarity_A)),
                     polarity_A, crashAt, dups)

rift_encode(S, in, polarity_A, crashAt) ==
    encode_loop(S, in, 0, <<>>, polarity_A, crashAt, 0)

\* sizeof(buf) of rift_open, scaled: 4096 = 2 * 2048
BufSize == 2 * HalfBuf

\* ---------- inputs ----------
Keys == {1, 257}
Payloads == {7, 8} \X {10} \X {POLARITY_POS, POLARITY_NEG}
TreePayloads == {<<7, 10, POLARITY_POS>>, <<8, 9, POLARITY_NEG>>}
MarkConfs == {4, 5, 9}
MarkPols == {0, POLARITY_POS, POLARITY_NEG}
TreeKeys == 1 .. MaxTreeKey
DeepKeys == 1 .. MaxDeepKey

\* the lookup specification: one payload, measurements of the smallest and
\* the largest key, pruning or confident
LookupPayloads == {<<7, 10, POLARITY_POS>>}
LookupMarkKeys == {1, MaxTreeKey}
LookupConfs == {4, 9}

\* byte sequences of every length up to n, in[i] = a + (i-1) as a uint8_t:
\* every byte differs from its neighbours, and the second family wraps
Ramp(n) == {[i \in 1 .. len |-> (a + (i - 1)) % 256] :
               len \in 0 .. n, a \in {65, 254}}

\* inputs of a direct rift_encode call
Inputs == Ramp(MaxIn)

\* inputs of rift_encode in the specification of the key set: one and two
\* output bytes
KeysInputs == {<<65>>, <<65, 66, 67>>}

\* byte sources of every length up to MaxChunks buffers and one byte more,
\* every byte different from its neighbours
Files == {[i \in 1 .. len |-> (64 + i) % 256] :
             len \in 0 .. (MaxChunks * BufSize + 1)}
Caps == {1, BufSize, 8 * BufSize}

NoCall == [op |-> "none", key |-> 0, val |-> 0, conf |-> 0, pol |-> 0,
           hit |-> FALSE, pre |-> 0, input |-> <<>>, polA |-> FALSE, ret |-> 0,
           stale |-> FALSE]

\* ---------- state machine ----------
Init ==
    /\ heap = <<>>
    /\ rb_root = NULL
    /\ streak = [b \in 0 .. NSTREAK - 1 |-> 0]
    /\ fault = FALSE
    /\ pc = "idle"
    /\ file = <<>>
    /\ fpos = 0
    /\ eof = FALSE
    /\ readable = TRUE
    /\ out = <<>>
    /\ total = 0
    /\ out_cap = 0
    /\ polA = FALSE
    /\ call = NoCall

ioVars == <<pc, file, fpos, eof, readable, out, total, out_cap, polA>>

\* rb_insert has returned r
Inserted(r, key, val, conf, pol) ==
    /\ heap' = r.S.heap
    /\ rb_root' = r.S.root
    /\ fault' = r.fault
    /\ call' = [NoCall EXCEPT !.op = "insert", !.key = key, !.val = val,
                              !.conf = conf, !.pol = pol,
                              !.hit = r.freed, !.pre = Len(heap),
                              !.stale = r.stale]

\* one rb_insert call: a key of K with a <<val, conf, pol>> of P
InsertFrom(K, P) ==
    /\ pc = "idle" /\ ~fault
    /\ \E key \in K, p \in P, wild \in BOOLEAN :
         Inserted(rb_insert(Tree, key, p[1], p[2], p[3], wild),
                  key, p[1], p[2], p[3])
    /\ UNCHANGED <<streak, ioVars>>

Insert == InsertFrom(Keys, Payloads)

TreeInsert == InsertFrom(TreeKeys, TreePayloads)

\* the counter values the model follows: MaxStreak steps from 0, up to
\* INT_MAX, and on from INT_MIN
StreakWindow(x) ==
    \/ (0 <= x /\ x <= MaxStreak)
    \/ x >= INT_MAX - MaxStreak
    \/ x <= INT_MIN + MaxStreak

\* mark_measurement has returned r
Marked(r, key, conf, pol) ==
    /\ StreakWindow(r.streak[key % NSTREAK])
    /\ heap' = r.heap
    /\ streak' = r.streak
    /\ call' = [NoCall EXCEPT !.op = "mark", !.key = key, !.conf = conf,
                              !.pol = pol,
                              !.hit = (find(Tree, key) # NULL),
                              !.pre = streak[key % NSTREAK]]

\* one mark_measurement call: a key of K, a confidence of C, a polarity of P
MarkFrom(K, C, P) ==
    /\ pc = "idle" /\ ~fault
    /\ \E key \in K, conf \in C, pol \in P :
         Marked(mark_measurement(Tree, streak, key, conf, pol), key, conf, pol)
    /\ UNCHANGED <<rb_root, fault, ioVars>>

MarkMeasurement == MarkFrom(Keys, MarkConfs, MarkPols)

\* one find call on a key of K
FindFrom(K) ==
    /\ pc = "idle" /\ ~fault
    /\ \E key \in K :
         call' = [NoCall EXCEPT !.op = "find", !.key = key,
                                !.hit = (find(Tree, key) # NULL),
                                !.ret = find(Tree, key)]
    /\ UNCHANGED <<heap, rb_root, streak, fault, ioVars>>

Find == FindFrom(Keys)

\* rb_insert over the keys of the deep trees, one payload
DeepInsert == InsertFrom(DeepKeys, LookupPayloads)

\* the operations of the index over the keys of the tree specification
LookupInsert == InsertFrom(TreeKeys, LookupPayloads)
LookupMark == MarkFrom(LookupMarkKeys, LookupConfs, {0})
LookupFind == FindFrom(TreeKeys)

\* rift_prune_negative: an empty body
PruneNegative ==
    /\ pc = "idle" /\ ~fault
    /\ call' = [NoCall EXCEPT !.op = "prune_negative"]
    /\ UNCHANGED <<heap, rb_root, streak, fault, ioVars>>

\* rift_encode has returned r (or the process has died in it)
Encoded(r, in, pA) ==
    /\ heap' = r.S.heap
    /\ rb_root' = r.S.root
    /\ fault' = r.fault
    /\ out' = r.out
    /\ call' = [NoCall EXCEPT !.op = "encode", !.input = in, !.polA = pA,
                              !.hit = (r.dups > 0), !.pre = Len(heap),
                              !.ret = Len(r.out)]

\* a direct rift_encode call on an input of I into a fresh output buffer
EncodeFrom(I) ==
    /\ pc = "idle" /\ ~fault
    /\ \E in \in I, pA \in BOOLEAN, crashAt \in 0 .. ((MaxIn + 1) \div 2) :
         Encoded(rift_encode(Tree, in, pA, crashAt), in, pA)
    /\ UNCHANGED <<streak, pc, file, fpos, eof, readable, total, out_cap, polA>>

Encode == EncodeFrom(Inputs)

\* the operations that could add or drop keys, over few payloads
KeysInsert == InsertFrom(Keys, LookupPayloads)
KeysMark == MarkFrom(Keys, LookupConfs, {0, POLARITY_NEG})
KeysEncode == EncodeFrom(KeysInputs)

\* rift_open going on to encode one byte of the unfilled buffer after fopen
\* has failed
OpenFailEncoded(r) ==
    /\ heap' = r.S.heap
    /\ rb_root' = r.S.root
    /\ out' = r.out
    /\ call' = [NoCall EXCEPT !.op = "open_fail", !.pre = Len(heap),
                              !.ret = Len(r.out)]

OpenFailEncodes ==
    /\ pc = "idle" /\ ~fault
    /\ OpenFailEncoded(rift_encode(Tree, <<0>>, FALSE, 0))
    /\ UNCHANGED <<streak, fault, pc, file, fpos, eof, readable, total, out_cap,
                   polA>>

\* rift_open: fopen fails
OpenFail ==
    /\ pc = "idle" /\ ~fault
    /\ out' = <<>>
    /\ call' = [NoCall EXCEPT !.op = "open_fail", !.pre = Len(heap), !.ret = 0]
    /\ UNCHANGED <<heap, rb_root, streak, fault, pc, file, fpos, eof, readable,
                   total, out_cap, polA>>

\* rift_open: fopen succeeds, total = 0
Open ==
    /\ pc = "idle" /\ ~fault
    /\ \E f \in Files, cap \in Caps, pA \in BOOLEAN, rd \in BOOLEAN :
         /\ file' = f
         /\ out_cap' = cap
         /\ polA' = pA
         /\ readable' = rd
         /\ call' = [NoCall EXCEPT !.op = "open", !.pre = Len(heap), !.polA = pA]
    /\ pc' = "loop"
    /\ fpos' = 0
    /\ eof' = FALSE
    /\ out' = <<>>
    /\ total' = 0
    /\ UNCHANGED <<heap, rb_root, streak, fault>>

\* size_t n = fread(buf, 1, sizeof(buf), f): the bytes left, at most a buffer
fread_count == IF Len(file) - fpos < BufSize THEN Len(file) - fpos ELSE BufSize

\* rift_encode(buf, n, out + total, polarity_A) has returned r; total += m
ChunkEncoded(r, n) ==
    /\ fpos' = fpos + n
    /\ eof' = (n < BufSize)
    /\ heap' = r.S.heap
    /\ rb_root' = r.S.root
    /\ fault' = r.fault
    /\ out' = out \o r.out
    /\ total' = IF r.fault THEN total ELSE total + Len(r.out)
    /\ call' = [call EXCEPT !.op = "read", !.hit = @ \/ (r.dups > 0),
                            !.ret = Len(r.out)]

\* one iteration of the while loop: fread of a chunk, rift_encode of it
ReadChunk ==
    /\ pc = "loop" /\ ~fault /\ readable
    /\ ~eof /\ total < out_cap
    /\ \E crashAt \in 0 .. HalfBuf :
         ChunkEncoded(rift_encode(Tree,
                                  SubSeq(file, fpos + 1, fpos + fread_count),
                                  polA, crashAt),
                      fread_count)
    /\ UNCHANGED <<streak, pc, file, readable, out_cap, polA>>

\* one iteration on a source whose read fails: fread returns 0 and sets the
\* error indicator, not end-of-file; rift_encode of 0 bytes does nothing
ReadError ==
    /\ pc = "loop" /\ ~fault /\ ~readable
    /\ ~eof /\ total < out_cap
    /\ call' = [call EXCEPT !.op = "read_error", !.ret = 0]
    /\ UNCHANGED <<heap, rb_root, streak, fault, ioVars>>

\* the loop ends: fclose, return total
Return ==
    /\ pc = "loop" /\ ~fault
    /\ ~(~eof /\ total < out_cap)
    /\ pc' = "idle"
    /\ call' = [call EXCEPT !.op = "return", !.ret = total]
    /\ UNCHANGED <<heap, rb_root, streak, fault, file, fpos, eof, readable, out,
                   total, out_cap, polA>>

\* the index through its operations
IndexNext == Insert \/ MarkMeasurement \/ Find \/ PruneNegative
SpecIndex == Init /\ [][IndexNext]_vars

\* the index from the state it is in after rb_insert(257, 8, 1.0f, '+') and
\* INT_MAX - 1 calls mark_measurement(257, 0.4f, 0): each call finds the
\* node, counts once in streak[257 & 0xFF] and prunes
InitSaturated ==
    /\ heap = <<[NewNode(257, 0, 0, POLARITY_POS, 0) EXCEPT !.height = 1]>>
    /\ rb_root = 1
    /\ streak = [b \in 0 .. NSTREAK - 1 |->
                    IF b = 257 % NSTREAK THEN INT_MAX - 1 ELSE 0]
    /\ fault = FALSE
    /\ pc = "idle"
    /\ file = <<>>
    /\ fpos = 0
    /\ eof = FALSE
    /\ readable = TRUE
    /\ out = <<>>
    /\ total = 0
    /\ out_cap = 0
    /\ polA = FALSE
    /\ call = [NoCall EXCEPT !.op = "mark", !.key = 257, !.conf = 4,
                             !.hit = TRUE, !.pre = INT_MAX - 2]
SpecSaturated == InitSaturated /\ [][IndexNext]_vars

\* rb_insert alone, over more keys
TreeNext == TreeInsert
SpecTree == Init /\ [][TreeNext]_vars

\* rb_insert alone, over trees deep enough to rotate below the root
DeepNext == DeepInsert
SpecDeep == Init /\ [][DeepNext]_vars

\* insert, find and mark_measurement over trees that rotate
LookupNext == LookupInsert \/ LookupMark \/ LookupFind
SpecLookup == Init /\ [][LookupNext]_vars

\* insert, rift_encode, mark_measurement and rift_prune_negative together
KeysNext == KeysInsert \/ KeysEncode \/ KeysMark \/ PruneNegative
SpecKeys == Init /\ [][KeysNext]_vars

\* rift_encode called directly
EncodeNext == Encode
SpecEncode == Init /\ [][EncodeNext]_vars

\* rift_open over byte sources
OpenNext == OpenFail \/ Open \/ ReadChunk \/ ReadError \/ Return
SpecOpen == Init /\ [][OpenNext]_vars

\* while (!feof(f) && total < out_cap) on a source that reads: ReadChunk is
\* enabled exactly here, and it always changes fpos or eof
ReadChunkEnabled ==
    pc = "loop" /\ ~fault /\ readable /\ ~eof /\ total < out_cap

\* rift_open with a running call taking its next step: the loop and the
\* return are the program's own steps, a new call is the caller's.  The
\* first conjunct is WF_vars(ReadChunk) written out.
SpecOpenFair ==
    /\ SpecOpen
    /\ ([]<>(~ReadChunkEnabled) \/ []<><<ReadChunk>>_vars)
    /\ WF_vars(ReadError) /\ WF_vars(Return)

\* every operation
Next == Insert \/ MarkMeasurement \/ Find \/ PruneNegative \/ Encode
            \/ OpenFail \/ Open \/ ReadChunk \/ ReadError \/ Return
Spec == Init /\ [][Next]_vars

(***************************************************************************)
(* Properties                                                              *)
(***************************************************************************)
RECURSIVE TrueHeight(_, _)
TrueHeight(h, n) ==
    IF n = NULL THEN 0
    ELSE 1 + Max(TrueHeight(h, h[n].left), TrueHeight(h, h[n].right))

RECURSIVE Reach(_, _)
Reach(h, n) ==
    IF n = NULL THEN {}
    ELSE {n} \cup Reach(h, h[n].left) \cup Reach(h, h[n].right)

KeysUnder(h, n) == {h[m].key : m \in Reach(h, n)}

Abs(x) == IF x < 0 THEN -x ELSE x

\* the entry find(key) returns in the current index
Entry(key) == heap[find(Tree, key)]

\* C1: after any sequence of insert calls every node of the tree has
\* |h(left) - h(right)| <= 1, h being the true height of the subtree.
\* Stated as the claim states it; the code breaks it.
C1_Balanced ==
    \A n \in Reach(heap, rb_root) :
        Abs(TrueHeight(heap, heap[n].left) - TrueHeight(heap, heap[n].right)) <= 1

\* C2: after any sequence of insert calls the tree reachable from rb_root is a
\* binary search tree: every key of a left subtree is smaller than the node's
\* key and every key of a right subtree is greater.
C2_SearchTree ==
    \A n \in Reach(heap, rb_root) :
        /\ \A k \in KeysUnder(heap, heap[n].left) : k < heap[n].key
        /\ \A k \in KeysUnder(heap, heap[n].right) : k > heap[n].key

\* the fourth node has gone in and rotations have made the node allocated
\* third the root, with a subtree on either side
C2_Witness ==
    /\ call.op = "insert" /\ ~call.hit
    /\ Len(heap) = 4
    /\ rb_root = 3
    /\ heap[rb_root].left # NULL /\ heap[rb_root].right # NULL

\* C3: insert of a key already in the index leaves the node count, the root
\* pointer and every node's left, right, parent and height as they were; the
\* one effect is that the existing node's value, confidence and polarity
\* become the arguments.
C3_DuplicateInPlace ==
    [][(call'.op = "insert" /\ call'.hit) =>
         /\ Len(heap') = Len(heap)
         /\ rb_root' = rb_root
         /\ \A n \in 1 .. Len(heap) :
              heap'[n] = IF heap[n].key = call'.key
                         THEN [heap[n] EXCEPT !.val = call'.val,
                                              !.confidence = call'.conf,
                                              !.polarity = call'.pol]
                         ELSE heap[n]]_vars

\* a duplicate insert of a key that sits below the root of a three-node index
\* has written the second payload over an entry, next to entries holding the
\* first
C3_Witness ==
    /\ call.op = "insert" /\ call.hit /\ ~fault
    /\ Len(heap) >= 3
    /\ find(Tree, call.key) # rb_root
    /\ Entry(call.key).val = 8 /\ Entry(call.key).polarity = POLARITY_NEG
    /\ heap[rb_root].val = 7

\* C4: rift_open started on an empty index and returning N has left exactly N
\* entries, keys 1..N, entry i holding output byte i, and none of its inserts
\* has hit a key already there.  Stated as the claim states it; the code
\* breaks it.
C4_RunningPosition ==
    (call.op = "return" /\ call.pre = 0) =>
        /\ Len(heap) = call.ret
        /\ ~call.hit
        /\ \A i \in 1 .. call.ret :
              find(Tree, i) # NULL /\ Entry(i).val = out[i]

\* bit k of a byte, and XOR built from the bits
Bit(x, k) == (x \div (2 ^ k)) % 2
BitSum(a, b, k) == IF Bit(a, k) = Bit(b, k) THEN 0 ELSE 2 ^ k
ByteXor(a, b) ==
    BitSum(a, b, 0) + BitSum(a, b, 1) + BitSum(a, b, 2) + BitSum(a, b, 3)
    + BitSum(a, b, 4) + BitSum(a, b, 5) + BitSum(a, b, 6) + BitSum(a, b, 7)

\* output byte j (0-based) of the pairwise rule on input `in`
PairByte(in, j, polarityIsA) ==
    LET a == in[2 * j + 1]
        b == IF 2 * j + 1 = Len(in) THEN 0 ELSE in[2 * j + 2]
    IN  IF polarityIsA THEN ByteXor(a, ByteXor(15, b))
        ELSE ByteXor(ByteXor(15, a), b)

\* C5: encode returns ceil(n/2) bytes, byte j being a XOR (0x0F XOR b) or
\* (0x0F XOR a) XOR b of the j-th pair, the odd trailing byte paired with 0x00,
\* whatever the index holds and whatever was called before.
C5_EncodeOutput ==
    (call.op = "encode" /\ ~fault) =>
        /\ call.ret = (Len(call.input) + 1) \div 2
        /\ Len(out) = call.ret
        /\ \A j \in 0 .. (Len(out) - 1) :
              out[j + 1] = PairByte(call.input, j, call.polA)

\* an odd-length input of three bytes or more, encoded with polarity B into an
\* index that earlier calls had filled
C5_Witness ==
    /\ call.op = "encode" /\ ~fault
    /\ Len(call.input) >= 3 /\ Len(call.input) % 2 = 1
    /\ ~call.polA
    /\ call.pre > 0
    /\ out[1] # out[Len(out)]

\* C6: after one encode call on an empty index, find(i) returns for every
\* output position i an entry with value output[i-1], confidence 1.0 and the
\* polarity of the call, and no other key is in the index.
C6_EncodeIndex ==
    (call.op = "encode" /\ call.pre = 0 /\ ~fault) =>
        /\ \A i \in 1 .. Len(out) :
              /\ find(Tree, i) # NULL
              /\ Entry(i).val = out[i]
              /\ Entry(i).confidence = 10
              /\ Entry(i).polarity =
                    (IF call.polA THEN POLARITY_POS ELSE POLARITY_NEG)
        /\ \A n \in Reach(heap, rb_root) : heap[n].key \in 1 .. Len(out)
        /\ Len(heap) = Len(out)

\* a polarity-B call on the empty index that produced three bytes
C6_Witness ==
    /\ call.op = "encode" /\ call.pre = 0 /\ ~fault
    /\ ~call.polA
    /\ Len(out) = 3
    /\ out[1] # out[2]

\* C7: mark_measurement of a present key with confidence below 0.5 leaves the
\* entry with value 0 and confidence 0.0, whatever was measured before.
\* Stated as the claim states it; the code breaks it once the bucket's int
\* counter stands at INT_MAX.
C7_LowConfidencePrunes ==
    (call.op = "mark" /\ call.hit /\ call.conf < 5) =>
        (Entry(call.key).val = 0 /\ Entry(call.key).confidence = 0)

\* C8: mark_measurement of a present key prunes the entry whenever its
\* polarity after the optional overwrite is Negative, whatever the confidence.
\* Stated as the claim states it; the code breaks it as it breaks C7.
C8_NegativePrunes ==
    (call.op = "mark" /\ call.hit /\ Entry(call.key).polarity = POLARITY_NEG) =>
        (Entry(call.key).val = 0 /\ Entry(call.key).confidence = 0)

\* C9: mark_measurement of a present key with confidence at least 0.5 and a
\* resulting polarity that is not Negative sets the counter of bucket
\* key mod 256 to 0, the entry's confidence to the argument, and leaves the
\* entry's value as it was.
C9_ConfidentResets ==
    [][(/\ call'.op = "mark" /\ call'.hit /\ call'.conf >= 5
        /\ heap'[find(Tree, call'.key)].polarity # POLARITY_NEG) =>
         /\ streak'[call'.key % 256] = 0
         /\ heap'[find(Tree, call'.key)].confidence = call'.conf
         /\ heap'[find(Tree, call'.key)].val = heap[find(Tree, call'.key)].val]_vars

\* a confident measurement of an unpruned Positive entry, made when the
\* bucket counter stood above 0
C9_Witness ==
    /\ call.op = "mark" /\ call.hit /\ call.conf >= 5
    /\ call.pre >= 1
    /\ Entry(call.key).polarity = POLARITY_POS
    /\ Entry(call.key).val # 0
    /\ streak[call.key % 256] = 0

\* C10: mark_measurement of a key that is not in the index changes no node,
\* not the tree and no streak counter.
C10_AbsentKeyNoOp ==
    [][(call'.op = "mark" /\ ~call'.hit) =>
         (heap' = heap /\ rb_root' = rb_root /\ streak' = streak)]_vars

\* a qualifying measurement of absent key 257 while key 1, of the same
\* bucket, is in the index
C10_Witness ==
    /\ call.op = "mark" /\ ~call.hit
    /\ call.key = 257 /\ call.conf = 4 /\ call.pol = POLARITY_NEG
    /\ find(Tree, 1) # NULL
    /\ Entry(1).val # 0

\* the keys inserted so far: the keys of the nodes allocated and not released
InsertedKeys == {heap[n].key : n \in 1 .. Len(heap)}

\* C11: find(key) returns the entry with that key if and only if the key was
\* inserted earlier, after any later inserts, rotations and measurements, and
\* a find call changes neither the tree nor a streak counter.
C11_FindExactlyInserted ==
    /\ [](\A key \in 0 .. (MaxTreeKey + 1) :
            /\ (find(Tree, key) # NULL) <=> (key \in InsertedKeys)
            /\ find(Tree, key) # NULL => Entry(key).key = key)
    /\ [][call'.op = "find" =>
            /\ heap' = heap /\ rb_root' = rb_root /\ streak' = streak
            /\ call'.hit = (call'.key \in InsertedKeys)
            /\ call'.hit => heap[call'.ret].key = call'.key]_vars

\* find has returned a pruned entry, the node allocated first, that a
\* rotation has moved below a root allocated after it
C11_Witness ==
    /\ call.op = "find" /\ call.hit
    /\ call.ret = 1 /\ rb_root > 1
    /\ heap[call.ret].val = 0
    /\ Len(heap) >= 4
    /\ streak[heap[call.ret].key % NSTREAK] > 0

\* the index after the step
TreeAfter == [heap |-> heap', root |-> rb_root']

\* C12: no insert, rift_encode, mark_measurement or rift_prune_negative call
\* removes a node: every key find returned before the call it returns after
\* it, no node leaves the heap, rift_prune_negative changes nothing, and an
\* entry a measurement has just pruned is returned by find with value 0 and
\* confidence 0.0.
C12_KeysNeverShrink ==
    [][/\ Len(heap') >= Len(heap)
       /\ \A n \in 1 .. Len(heap) :
            /\ heap'[n].key = heap[n].key
            /\ find(Tree, heap[n].key) = n => find(TreeAfter, heap[n].key) = n
       /\ call'.op = "prune_negative" => (heap' = heap /\ rb_root' = rb_root)
       /\ \A n \in 1 .. Len(heap) :
            (call'.op = "mark" /\ heap[n].val # 0 /\ heap'[n].val = 0) =>
                /\ find(TreeAfter, call'.key) = n
                /\ heap'[n].confidence = 0]_vars

\* a Negative measurement has pruned key 1 in an index that rift_encode and
\* insert have filled, and a rift_prune_negative call has followed
C12_Witness ==
    /\ call.op = "prune_negative"
    /\ Len(heap) = 3
    /\ find(Tree, 1) # NULL /\ find(Tree, 257) # NULL
    /\ Entry(1).val = 0 /\ Entry(1).confidence = 0
    /\ Entry(1).polarity = POLARITY_NEG
    /\ Entry(257).val = 7

\* C13: rift_open never writes more than out_cap bytes to the output buffer
\* and never returns more than out_cap, for every source length and every
\* out_cap.  Stated as the claim states it; the code breaks it: the capacity
\* is tested between chunks only.
C13_WithinCapacity ==
    (call.op \in {"read", "return"}) =>
        (Len(out) <= out_cap /\ total <= out_cap)

\* C14: when the byte source cannot be opened rift_open returns 0, writes
\* nothing to the output buffer and inserts nothing: every node, rb_root and
\* every streak counter are as before the call.
C14_OpenFailureNoEffect ==
    [][call'.op = "open_fail" =>
         /\ call'.ret = 0
         /\ out' = <<>>
         /\ heap' = heap /\ rb_root' = rb_root /\ streak' = streak
         /\ pc' = "idle" /\ ~fault']_vars

\* the open has failed on an index that an earlier rift_open of two chunks
\* had filled
C14_Witness ==
    /\ call.op = "open_fail" /\ call.ret = 0
    /\ call.pre = HalfBuf /\ Len(heap) = HalfBuf
    /\ rb_root # NULL
    /\ total > HalfBuf
    /\ out = <<>>

\* C15: rift_open returns for every byte source that was opened, a source
\* whose read fails without end-of-file included.  Stated as the claim states
\* it; the code breaks it: on a failing read neither feof(f) nor total
\* changes and the loop condition stays true.
C15_OpenReturns == (pc = "loop" /\ ~fault) ~> (pc = "idle" \/ fault)

\* node n with the polarity tag of the other encoding pass
OtherTag(n) ==
    [n EXCEPT !.polarity = IF @ = POLARITY_POS THEN POLARITY_NEG
                           ELSE POLARITY_POS]

\* what rift_encode called with the other polarity on the same index returns
\* next to what the call has returned: the same bytes, the same tree, and
\* nodes that differ in the polarity of the keys written, at most
SameButTag(r, written) ==
    /\ r.out = out'
    /\ r.S.root = rb_root'
    /\ Len(r.S.heap) = Len(heap')
    /\ \A n \in 1 .. Len(heap') :
          r.S.heap[n] = IF heap'[n].key \in written THEN OtherTag(heap'[n])
                        ELSE heap'[n]

C17_StoredHeights ==
    \A n \in Reach(heap, rb_root) : heap[n].height = TrueHeight(heap, n)

\* the fields of a node that place it in the tree
Links(n) == <<n.key, n.left, n.right, n.parent, n.height, n.color>>

\* C18: mark_measurement changes no key and nothing of the tree's structure
\* (rb_root, left, right, parent, height of every node), no field of an entry
\* other than the measured one, not the measured entry's polarity when no
\* polarity argument is given, and its value stays or becomes 0.
C18_MarkFrame ==
    [][call'.op = "mark" =>
         /\ rb_root' = rb_root
         /\ Len(heap') = Len(heap)
         /\ \A n \in 1 .. Len(heap) :
              /\ Links(heap'[n]) = Links(heap[n])
              /\ n # find(Tree, call'.key) => heap'[n] = heap[n]
              /\ call'.pol = 0 => heap'[n].polarity = heap[n].polarity
              /\ heap'[n].val \in {heap[n].val, 0}]_vars

\* a confident measurement without polarity argument of a pruned Negative
\* entry below the root, the root entry holding its value
C18_Witness ==
    /\ call.op = "mark" /\ call.hit /\ call.pol = 0 /\ call.conf = 9
    /\ Len(heap) = 2
    /\ find(Tree, call.key) # rb_root
    /\ Entry(call.key).polarity = POLARITY_NEG
    /\ Entry(call.key).val = 0 /\ Entry(call.key).confidence = 0
    /\ heap[rb_root].val # 0

\* C19: after any sequence of inserts rb_root has no parent and is the only
\* node without one, every other node is the left or the right child, not
\* both, of the node its parent field names, and every node allocated and not
\* released as a duplicate is reachable from rb_root.
C19_ParentLinks ==
    /\ rb_root = NULL <=> heap = <<>>
    /\ \A n \in 1 .. Len(heap) :
          /\ (heap[n].parent = NULL) <=> (n = rb_root)
          /\ heap[n].parent # NULL =>
                (heap[heap[n].parent].left = n) # (heap[heap[n].parent].right = n)
          /\ heap[n].left # NULL => heap[heap[n].left].parent = n
          /\ heap[n].right # NULL => heap[heap[n].right].parent = n
    /\ Reach(heap, rb_root) = 1 .. Len(heap)

\* keys 1..6 have gone in in this order, and the sixth insert has rotated
\* left at the node of key 3, below the root: key 4 has taken its place as
\* the right child of the root and key 3 is its left child
C19_Witness ==
    /\ call.op = "insert" /\ ~call.hit /\ call.key = 6
    /\ Len(heap) = 6
    /\ \A n \in 1 .. 6 : heap[n].key = n
    /\ rb_root = 2
    /\ heap[2].right = 4 /\ heap[4].parent = 2
    /\ heap[4].left = 3 /\ heap[3].parent = 4

\* C20: rb_insert never reads or writes a node after it has been released:
\* when the key exists already and bst_insert frees the fresh node, neither
\* rb_insert nor rebalance_up accesses it afterwards.  Stated as the claim
\* states it; the code breaks it on every insert of a key that is there.
C20_NoUseAfterFree == (call.op = "insert" /\ call.hit) => ~call.stale
=============================================================================
